---------------------------- MODULE Spec2Model ----------------------------
(***************************************************************************)
(* The document-store engine of booktrack (src/unnamed/part_003, lines     *)
(* 116-502): class Collection over the key-value store spark.kv, and class *)
(* Database.                                                                *)
(*                                                                         *)
(* Every async method of Collection is a sequence of steps separated by    *)
(* its awaits: the call itself (the code before the first await), the      *)
(* kv.get of getAllDocuments, and the kv.set of saveAllDocuments together   *)
(* with the synchronous computation that precedes it.  Other callers may   *)
(* run between two steps.                                                  *)
(*                                                                         *)
(* JavaScript values are encoded as sequences of integers whose head is a  *)
(* type tag, so that any two values can be compared.                       *)
(***************************************************************************)
EXTENDS Integers, Sequences, FiniteSets, TLC

(***************************************************************************)
(* Bounds of the model.                                                    *)
(***************************************************************************)
MaxOps == 2        \* operations started in one behaviour
MaxTick == 1       \* milliseconds the clock may advance past its start
MaxRandLen == 1    \* hex digits Math.random().toString(16) shows after "0."
MaxStored == 3     \* documents of a collection the reading operations start over
MaxDbOps == 3      \* operations started in one behaviour of the databases

(***************************************************************************)
(* Program constants.                                                      *)
(***************************************************************************)
MsPerSecond == 1000   \* Date.now() / 1000
HexRadix == 16        \* toString(16)
RandomFrom == 2       \* substring(2, 14)
RandomTo == 14

VARIABLES
    kv,      \* spark.kv: storage key -> entry ([present, docs])
    now,     \* the wall clock, in milliseconds
    nops,    \* operations started so far
    writes,  \* kv.set and kv.delete calls that have landed so far
    returned,\* history: the documents insertOne returned, while insertOne
             \* calls on an initially empty store are all that has run
    call,    \* per caller: the operation in progress or last completed
    events   \* history: the kv.set and kv.delete calls that have landed, in
             \* order, each with its key, the names the caller's object was
             \* made from, whether the key had an entry, how many calls had
             \* landed when the caller read, and the _ids the operation
             \* removes and adds

vars == <<kv, now, nops, writes, returned, call, events>>

(***************************************************************************)
(* JavaScript values.                                                      *)
(***************************************************************************)
Undefined == <<0>>
Num(n) == <<1, n>>
Str(s) == <<2>> \o s
DateOf(t) == <<3, t>>
GteObj(n) == <<4, n>>          \* the object literal {$gte: n}

IsObject(v) == v[1] \in {3, 4}

\* a === b: primitives by value, objects by identity.  A filter's object
\* is never the object the store handed back, so two objects never match.
StrictEq(a, b) == IF IsObject(a) \/ IsObject(b) THEN FALSE ELSE a = b

\* a < b of JavaScript on the values the model uses: numbers and dates by
\* number, strings by code units; anything else compares false.
RECURSIVE SeqLess(_, _)
SeqLess(s, t) ==
    IF t = <<>> THEN FALSE
    ELSE IF s = <<>> THEN TRUE
    ELSE IF Head(s) # Head(t) THEN Head(s) < Head(t)
    ELSE SeqLess(Tail(s), Tail(t))

JsLess(a, b) ==
    IF a[1] \in {1, 3} /\ b[1] \in {1, 3} THEN a[2] < b[2]
    ELSE IF a[1] = 2 /\ b[1] = 2 THEN SeqLess(Tail(a), Tail(b))
    ELSE FALSE

(***************************************************************************)
(* Objects: a document, a filter and a patch are functions from the keys   *)
(* they have to values.                                                    *)
(***************************************************************************)
EmptyObj == [k \in {} |-> Undefined]

\* obj[key]
Field(obj, k) == IF k \in DOMAIN obj THEN obj[k] ELSE Undefined

\* {...a, ...b}
Spread(a, b) ==
    [k \in DOMAIN a \cup DOMAIN b |-> IF k \in DOMAIN b THEN b[k] ELSE a[k]]

Min(a, b) == IF a < b THEN a ELSE b


(***************************************************************************)
(* Strings are sequences of character codes: the hexadecimal digits are    *)
(* 0..15 and "." is DotChar.                                               *)
(***************************************************************************)
DotChar == HexRadix

\* s.substring(from, to)
Substring(s, from, to) == SubSeq(s, from + 1, Min(to, Len(s)))

\* n.toString(16) of a non-negative integer
RECURSIVE ToHex(_)
ToHex(n) ==
    IF n < HexRadix THEN <<n>>
    ELSE ToHex(n \div HexRadix) \o <<n % HexRadix>>

\* The strings Math.random().toString(16) can give: "0", or "0." followed
\* by hexadecimal digits.
RandDigits == {10}
RandomStrings ==
    {<<0>>} \cup
    UNION {{<<0, DotChar>> \o d : d \in [1..n -> RandDigits]} : n \in 1..MaxRandLen}

\* Collection.generateId, at clock reading t with Math.random() shown as r
generateId(t, r) ==
    LET timestamp == ToHex(t \div MsPerSecond)
        random == Substring(r, RandomFrom, RandomTo)
    IN  Str(timestamp \o random)

\* {...doc, _id: generateId(), createdAt: new Date(), updatedAt: new Date()}
\* with the three clock readings t0 <= t1 <= t2 in evaluation order
Stamped(doc, t0, r, t1, t2) ==
    Spread(doc, ("_id" :> generateId(t0, r)) @@ ("createdAt" :> DateOf(t1))
                 @@ ("updatedAt" :> DateOf(t2)))

\* insertMany: docs.map stamps the documents in input order
StampedAll(docs, reads, rs) ==
    [i \in 1..Len(docs) |->
        Stamped(docs[i], reads[3 * i - 2], rs[i], reads[3 * i - 1], reads[3 * i])]

(***************************************************************************)
(* Storage keys.  Names are sequences of tokens, "_" one of them.          *)
(***************************************************************************)
\* Database.collection: new Collection(`${dbName}_${name}`)
collectionName(dbName, name) == dbName \o <<"_">> \o name

\* mutant of getKey: one key for every collection
getKeyShared(cname) == <<"db">>

\* Collection.getKey: `db_${collectionName}`
getKey(cname) == <<"db", "_">> \o cname

DefaultDb == <<"bookvault">>
BooksColl == collectionName(DefaultDb, <<"books">>)
Colls == {BooksColl}
Keys == {getKey(c) : c \in Colls}

NoEntry == [present |-> FALSE, docs |-> <<>>]
Entry(docs) == [present |-> TRUE, docs |-> docs]

\* getAllDocuments: docs || []
getAllDocuments(cname) ==
    IF kv[getKey(cname)].present THEN kv[getKey(cname)].docs ELSE <<>>

(***************************************************************************)
(* The computations of Collection on a loaded array of documents.          *)
(***************************************************************************)
\* mutant of Matches: {$gte: n} is read as a range
MatchesRange(doc, query) ==
    \A k \in DOMAIN query :
        IF query[k][1] = 4
        THEN Field(doc, k)[1] = 1 /\ Field(doc, k)[2] >= query[k][2]
        ELSE StrictEq(Field(doc, k), query[k])

\* Object.entries(query).every(([key, value]) => doc[key] === value)
Matches(doc, query) ==
    \A k \in DOMAIN query : StrictEq(Field(doc, k), query[k])

\* find: the query filter
Filtered(docs, query) ==
    IF DOMAIN query # {} THEN SelectSeq(docs, LAMBDA d : Matches(d, query))
    ELSE docs

\* mutant of Compare: the direction is ignored, every field sorts ascending
RECURSIVE CompareAscending(_, _, _)
CompareAscending(a, b, sortEntries) ==
    IF sortEntries = <<>> THEN 0
    ELSE LET aVal == Field(a, Head(sortEntries)[1])
             bVal == Field(b, Head(sortEntries)[1])
         IN  IF JsLess(aVal, bVal) THEN -1
             ELSE IF JsLess(bVal, aVal) THEN 1
             ELSE CompareAscending(a, b, Tail(sortEntries))

\* find: the comparator handed to docs.sort; sortEntries is a sequence of
\* <<field, direction>>
RECURSIVE Compare(_, _, _)
Compare(a, b, sortEntries) ==
    IF sortEntries = <<>> THEN 0
    ELSE LET field == Head(sortEntries)[1]
             direction == Head(sortEntries)[2]
             aVal == Field(a, field)
             bVal == Field(b, field)
         IN  IF JsLess(aVal, bVal) THEN (IF direction = 1 THEN -1 ELSE 1)
             ELSE IF JsLess(bVal, aVal) THEN (IF direction = 1 THEN 1 ELSE -1)
             ELSE Compare(a, b, Tail(sortEntries))

\* Array.prototype.sort is stable: d goes before the first element that
\* compares greater than it.
RECURSIVE InsertSorted(_, _, _)
InsertSorted(sorted, d, sortEntries) ==
    IF sorted = <<>> THEN <<d>>
    ELSE IF Compare(d, Head(sorted), sortEntries) < 0 THEN <<d>> \o sorted
    ELSE <<Head(sorted)>> \o InsertSorted(Tail(sorted), d, sortEntries)

RECURSIVE SortDocs(_, _)
SortDocs(docs, sortEntries) ==
    IF docs = <<>> THEN <<>>
    ELSE InsertSorted(SortDocs(SubSeq(docs, 1, Len(docs) - 1), sortEntries),
                      docs[Len(docs)], sortEntries)

\* if (options.x): the option is given and is not 0
Truthy(options, x) == x \in DOMAIN options /\ options[x] # 0

\* docs.slice(start) and docs.slice(0, end) for start, end >= 0
SliceFrom(docs, start) == SubSeq(docs, start + 1, Len(docs))
SliceTo(docs, end) == SubSeq(docs, 1, Min(end, Len(docs)))

\* Collection.find, on the loaded documents
find(docs, query, options) ==
    LET filtered == Filtered(docs, query)
        sorted == IF "sort" \in DOMAIN options
                  THEN SortDocs(filtered, options["sort"]) ELSE filtered
        skipped == IF Truthy(options, "skip")
                   THEN SliceFrom(sorted, options["skip"]) ELSE sorted
    IN  IF Truthy(options, "limit") THEN SliceTo(skipped, options["limit"])
        ELSE skipped

\* The index of the first document matching query at or after i, 0 if none
\* (the for loops of updateOne and deleteOne).
RECURSIVE FirstMatchFrom(_, _, _)
FirstMatchFrom(docs, query, i) ==
    IF i > Len(docs) THEN 0
    ELSE IF Matches(docs[i], query) THEN i
    ELSE FirstMatchFrom(docs, query, i + 1)

FirstMatch(docs, query) == FirstMatchFrom(docs, query, 1)

\* {...doc, ...update, updatedAt: new Date()}
Merged(doc, update, t) ==
    Spread(Spread(doc, update), "updatedAt" :> DateOf(t))

\* mutant of updateOneDocs: the loop has no break
updateOneDocsNoBreak(docs, query, update, t) ==
    [i \in 1..Len(docs) |->
        IF Matches(docs[i], query) THEN Merged(docs[i], update, t) ELSE docs[i]]

\* updateOne: the loop over the loaded documents
updateOneDocs(docs, query, update, t) ==
    LET i == FirstMatch(docs, query)
    IN  IF i = 0 THEN docs
        ELSE [docs EXCEPT ![i] = Merged(docs[i], update, t)]

\* mutant of updateManyDocs: only the first matching document is merged
updateManyDocsFirst(docs, query, update, ts) ==
    [i \in 1..Len(docs) |->
        IF i = FirstMatch(docs, query) THEN Merged(docs[i], update, ts[i])
        ELSE docs[i]]

\* updateMany: docs.map; ts[i] is the clock reading taken for document i
updateManyDocs(docs, query, update, ts) ==
    [i \in 1..Len(docs) |->
        IF Matches(docs[i], query) THEN Merged(docs[i], update, ts[i])
        ELSE docs[i]]

MatchCount(docs, query) ==
    Cardinality({i \in 1..Len(docs) : Matches(docs[i], query)})

\* mutant of upsertDoc: the spreads are swapped, the filter wins
upsertDocFilterWins(query, update, t0, r, t1, t2) ==
    Stamped(Spread(update, query), t0, r, t1, t2)

\* the upsert branch: {...query, ...update, _id, createdAt, updatedAt}
upsertDoc(query, update, t0, r, t1, t2) ==
    Stamped(Spread(query, update), t0, r, t1, t2)

\* mutant of deleteManyDocs: only the first match is removed
deleteManyDocsFirst(docs, query) ==
    LET i == FirstMatch(docs, query)
    IN  IF i = 0 THEN docs
        ELSE SubSeq(docs, 1, i - 1) \o SubSeq(docs, i + 1, Len(docs))

\* deleteMany: docs.filter(doc => !matches)
deleteManyDocs(docs, query) ==
    SelectSeq(docs, LAMBDA d : ~Matches(d, query))

\* mutant of deleteOneDocs: the loop has no break, every match is removed
deleteOneDocsAll(docs, query) ==
    SelectSeq(docs, LAMBDA d : ~Matches(d, query))

\* mutant of deleteOneDocs: the last document is moved into the gap
deleteOneDocsSwap(docs, query) ==
    LET i == FirstMatch(docs, query)
        n == Len(docs)
    IN  IF i = 0 THEN docs
        ELSE [k \in 1..(n - 1) |-> IF k = i THEN docs[n] ELSE docs[k]]

\* deleteOne: docs.splice(i, 1) at the first match
deleteOneDocs(docs, query) ==
    LET i == FirstMatch(docs, query)
    IN  IF i = 0 THEN docs
        ELSE SubSeq(docs, 1, i - 1) \o SubSeq(docs, i + 1, Len(docs))


(***************************************************************************)
(* Inputs of the model: the documents, filters and patches callers pass.   *)
(***************************************************************************)
Reading == Str(<<114>>)
Completed == Str(<<99>>)

DocA == "status" :> Reading
DocC == ("status" :> Reading) @@ ("pages" :> Num(2))
InputDocs == {DocA, DocC}
Batches == {<<>>, <<DocA, DocC>>}

\* the clock starts one millisecond before a second ends; the documents
\* found in the store were stamped a second earlier
StartTime == 2 * MsPerSecond - 1
Times == StartTime..(StartTime + MaxTick)
SeedTime == StartTime - MsPerSecond

\* an _id value a caller holds: that of a document stored earlier
KnownId == generateId(SeedTime, <<0>>)

Queries ==
    { EmptyObj,
      ("status" :> Reading) @@ ("pages" :> Num(2)),
      "pages" :> GteObj(1),
      "genre" :> Reading,
      "genre" :> Undefined,
      "_id" :> KnownId }

Updates ==
    { "status" :> Completed,
      ("_id" :> KnownId) @@ ("createdAt" :> DateOf(0)) }

StoreErrors == {"unavailable", "quota"}

Callers == {1, 2}

Mutating ==
    {"insertOne", "insertMany", "updateOne", "updateMany", "deleteOne", "deleteMany"}

\* via: the database name and the collection name the Collection was made
\* from, those of the books collection unless the call says otherwise
NoOp ==
    [name |-> "none", coll |-> <<>>, via |-> <<DefaultDb, <<"books">>>>,
     query |-> EmptyObj, update |-> EmptyObj,
     upsert |-> FALSE, options |-> EmptyObj, docs |-> <<>>]

Ok(v) == [ok |-> TRUE, val |-> v]
Err(e) == [ok |-> FALSE, val |-> e]

\* keys and at belong to Database.drop: the keys it enumerated, in the
\* order of its loop, and how many of them it has deleted.
\* before, thrown, readAt and wroteAt are history: the entry when the
\* operation started, the error the store gave, and the number of landed
\* writes at its read and after its write
Idle ==
    [pc |-> "idle", op |-> NoOp, before |-> NoEntry, snap |-> <<>>, out |-> <<>>,
     ret |-> Ok(<<>>), thrown |-> "", gets |-> 0, sets |-> 0, readAt |-> 0,
     wroteAt |-> 0, keys |-> <<>>, at |-> 0]

\* n successive readings of the clock, which never runs backwards
ClockReads(n) ==
    {s \in [1..n -> Times] :
        /\ n > 0 => s[1] >= now
        /\ \A i \in 1..(n - 1) : s[i] <= s[i + 1]}

LastRead(reads) == IF reads = <<>> THEN now ELSE reads[Len(reads)]

\* spark.kv outlives the page: the constructors of Database and Collection
\* do no I/O, so the program starts over what earlier runs stored, nothing
\* or the documents of an earlier insertMany.
SeedDocs ==
    StampedAll(<<DocA, DocC>>, [i \in 1..6 |-> SeedTime],
               <<<<0, DotChar, 10>>, <<0>>>>)
InitialEntries == {NoEntry, Entry(SeedDocs)}

Init ==
    /\ kv \in [Keys -> InitialEntries]
    /\ now = StartTime
    /\ nops = 0
    /\ writes = 0
    /\ returned = [only |-> \A k \in Keys : kv[k] = NoEntry, docs |-> <<>>]
    /\ call = [p \in Callers |-> Idle]
    /\ events = <<>>

(***************************************************************************)
(* A caller starts an operation: the code of the method up to its first    *)
(* await.                                                                  *)
(***************************************************************************)
BeginWithin(p, op, max) ==
    /\ call[p].pc \in {"idle", "done", "failed"}
    /\ nops < max
    /\ nops' = nops + 1
    /\ call' = [call EXCEPT ![p] = [Idle EXCEPT !.pc = "called", !.op = op,
                                                !.before = kv[getKey(op.coll)]]]
    /\ UNCHANGED <<kv, writes, returned, events>>

Begin(p, op) == BeginWithin(p, op, MaxOps)

\* insertOne: newDoc is built before getAllDocuments is awaited
CallInsertOne(p, inputs) ==
    \E c \in Colls, doc \in inputs, reads \in ClockReads(3), r \in RandomStrings :
        /\ Begin(p, [NoOp EXCEPT !.name = "insertOne", !.coll = c,
                       !.docs = <<Stamped(doc, reads[1], r, reads[2], reads[3])>>])
        /\ now' = reads[3]

CallInsertMany(p, batches) ==
    \E c \in Colls, docs \in batches :
        \E reads \in ClockReads(3 * Len(docs)), rs \in [1..Len(docs) -> RandomStrings] :
            /\ Begin(p, [NoOp EXCEPT !.name = "insertMany", !.coll = c,
                           !.docs = StampedAll(docs, reads, rs)])
            /\ now' = LastRead(reads)

CallUpdate(p, names, queries, updates) ==
    \E c \in Colls, n \in names, q \in queries, u \in updates, up \in BOOLEAN :
        /\ Begin(p, [NoOp EXCEPT !.name = n, !.coll = c, !.query = q,
                       !.update = u, !.upsert = up])
        /\ UNCHANGED now

CallDelete(p, names, queries) ==
    \E c \in Colls, n \in names, q \in queries :
        /\ Begin(p, [NoOp EXCEPT !.name = n, !.coll = c, !.query = q])
        /\ UNCHANGED now


FindOptions == {EmptyObj}

CallFind(p) ==
    \E c \in Colls, n \in {"find", "countDocuments"}, q \in Queries, o \in FindOptions :
        /\ Begin(p, [NoOp EXCEPT !.name = n, !.coll = c, !.query = q,
                       !.options = IF n = "find" THEN o ELSE EmptyObj])
        /\ UNCHANGED now

(***************************************************************************)
(* getAllDocuments: await spark.kv.get(key).                               *)
(***************************************************************************)
\* mutant of Raise: the error is caught and the method returns normally
RaiseSwallowed(e) == Ok(<<>>)

\* a rejected await rejects the async method with the same error
Raise(e) == Err(e)

\* mutant of Load: the documents are those of the entry as it was when the
\* method was called, not as it is at the read
LoadStale(p) ==
    /\ call[p].pc = "called"
    /\ call[p].op.name \in Mutating
    /\ call' = [call EXCEPT ![p].pc = "loaded",
                            ![p].snap = call[p].before.docs,
                            ![p].gets = 1,
                            ![p].readAt = writes]
    /\ UNCHANGED <<kv, now, nops, writes, returned, events>>

Load(p) ==
    /\ call[p].pc = "called"
    /\ call[p].op.name \in Mutating
    /\ call' = [call EXCEPT ![p].pc = "loaded",
                            ![p].snap = getAllDocuments(call[p].op.coll),
                            ![p].gets = 1,
                            ![p].readAt = writes]
    /\ UNCHANGED <<kv, now, nops, writes, returned, events>>

\* Collection.countDocuments: (await this.find(query)).length
countDocuments(docs, query) == Len(find(docs, query, EmptyObj))

\* mutant of Return: the array find sorted and sliced is written back
ReturnStoring(p) ==
    /\ call[p].pc = "called"
    /\ call[p].op.name \in {"find", "countDocuments"}
    /\ LET docs == getAllDocuments(call[p].op.coll)
           op == call[p].op
       IN  /\ call' = [call EXCEPT
                  ![p].pc = "done",
                  ![p].snap = docs,
                  ![p].gets = 1,
                  ![p].readAt = writes,
                  ![p].ret = IF op.name = "find"
                             THEN Ok(find(docs, op.query, op.options))
                             ELSE Ok(Len(find(docs, op.query, EmptyObj)))]
           /\ kv' = [kv EXCEPT ![getKey(op.coll)] =
                        Entry(find(docs, op.query, op.options))]
    /\ UNCHANGED <<now, nops, writes, returned, events>>

\* find and countDocuments return right after the read
Return(p) ==
    /\ call[p].pc = "called"
    /\ call[p].op.name \in {"find", "countDocuments"}
    /\ LET docs == getAllDocuments(call[p].op.coll)
           op == call[p].op
       IN  call' = [call EXCEPT
               ![p].pc = "done",
               ![p].snap = docs,
               ![p].gets = 1,
               ![p].readAt = writes,
               ![p].ret = IF op.name = "find"
                          THEN Ok(find(docs, op.query, op.options))
                          ELSE Ok(countDocuments(docs, op.query))]
    /\ UNCHANGED <<kv, now, nops, writes, returned, events>>

LoadFail(p) ==
    \E e \in StoreErrors :
        /\ call[p].pc = "called"
        /\ call' = [call EXCEPT ![p].pc = "failed", ![p].gets = 1,
                                ![p].thrown = e, ![p].ret = Raise(e)]
        /\ UNCHANGED <<kv, now, nops, writes, returned, events>>

(***************************************************************************)
(* The rest of each mutating method: the computation on the loaded array   *)
(* and saveAllDocuments, await spark.kv.set(key, docs).                    *)
(***************************************************************************)
\* the _ids of docs
Ids(docs) == {docs[i]["_id"] : i \in 1..Len(docs)}

\* the _ids of the documents a deleteOne or deleteMany takes out of what it
\* loaded
Removes(p) ==
    LET op == call[p].op
        i == FirstMatch(call[p].snap, op.query)
    IN  IF op.name = "deleteMany"
        THEN Ids(SelectSeq(call[p].snap, LAMBDA d : Matches(d, op.query)))
        ELSE IF op.name = "deleteOne" /\ i # 0 THEN {call[p].snap[i]["_id"]}
        ELSE {}

\* the _ids of the documents an insert or an upsert puts in
Adds(p, docs) ==
    IF call[p].op.name \in {"insertOne", "insertMany"} THEN Ids(call[p].op.docs)
    ELSE IF call[p].op.name \in {"updateOne", "updateMany"}
            /\ Len(docs) > Len(call[p].snap)
    THEN {docs[Len(docs)]["_id"]}
    ELSE {}

\* history of the kv.set of p's operation
SetEvent(p, docs) ==
    [kind |-> "set", key |-> getKey(call[p].op.coll), via |-> call[p].op.via,
     had |-> kv[getKey(call[p].op.coll)].present, readAt |-> call[p].readAt,
     removed |-> Removes(p), added |-> Adds(p, docs)]

\* history of a kv.delete of key by p's operation
DeleteEvent(p, key) ==
    [kind |-> "delete", key |-> key, via |-> call[p].op.via,
     had |-> kv[key].present, readAt |-> writes,
     removed |-> Ids(kv[key].docs), added |-> {}]

\* mutant of Saved: kv.set is skipped when the array is as it was loaded
SavedIfChanged(p, docs, ret) ==
    /\ kv' = IF docs = call[p].snap THEN kv
             ELSE [kv EXCEPT ![getKey(call[p].op.coll)] = Entry(docs)]
    /\ writes' = IF docs = call[p].snap THEN writes ELSE writes + 1
    /\ events' = IF docs = call[p].snap THEN events
                 ELSE Append(events, SetEvent(p, docs))
    /\ returned' = IF call[p].op.name = "insertOne" /\ returned.only
                   THEN [returned EXCEPT !.docs = Append(@, ret)]
                   ELSE [only |-> FALSE, docs |-> <<>>]
    /\ call' = [call EXCEPT ![p].pc = "done", ![p].out = docs, ![p].ret = Ok(ret),
                            ![p].sets = IF docs = call[p].snap THEN 0 ELSE 1,
                            ![p].wroteAt = writes + 1]
    /\ UNCHANGED nops

\* saveAllDocuments when kv.set succeeds: the whole array replaces the entry
Saved(p, docs, ret) ==
    /\ kv' = [kv EXCEPT ![getKey(call[p].op.coll)] = Entry(docs)]
    /\ writes' = writes + 1
    /\ events' = Append(events, SetEvent(p, docs))
    /\ returned' = IF call[p].op.name = "insertOne" /\ returned.only
                   THEN [returned EXCEPT !.docs = Append(@, ret)]
                   ELSE [only |-> FALSE, docs |-> <<>>]
    /\ call' = [call EXCEPT ![p].pc = "done", ![p].out = docs, ![p].ret = Ok(ret),
                            ![p].sets = 1, ![p].wroteAt = writes + 1]
    /\ UNCHANGED nops

Loaded(p, name) == call[p].pc = "loaded" /\ call[p].op.name = name

\* mutants of pushNewDoc: the array is read again at the write; the loaded
\* documents are forgotten
pushNewDocReloaded(p) ==
    Append(getAllDocuments(call[p].op.coll), call[p].op.docs[1])

pushNewDocAlone(p) == <<call[p].op.docs[1]>>

\* insertOne: docs.push(newDoc)
pushNewDoc(p) == Append(call[p].snap, call[p].op.docs[1])

SaveInsertOne(p) ==
    /\ Loaded(p, "insertOne")
    /\ Saved(p, pushNewDoc(p), call[p].op.docs[1])
    /\ UNCHANGED now

\* mutant of SaveInsertMany: the spreads are swapped, [...newDocs, ...existingDocs]
SaveInsertManyPrepended(p) ==
    /\ Loaded(p, "insertMany")
    /\ Saved(p, call[p].op.docs \o call[p].snap, call[p].op.docs)
    /\ UNCHANGED now

\* insertMany: [...existingDocs, ...newDocs]
SaveInsertMany(p) ==
    /\ Loaded(p, "insertMany")
    /\ Saved(p, call[p].snap \o call[p].op.docs, call[p].op.docs)
    /\ UNCHANGED now

Counts(m) == [matchedCount |-> m, modifiedCount |-> m]

\* mutant of updateOne: the upsert branch does not set the counts
updateOneUpsertUncounted(docs, query, update, upsert, reads, r) ==
    LET i == FirstMatch(docs, query)
        matchedCount == IF i = 0 THEN 0 ELSE 1
    IN  IF matchedCount = 0 /\ upsert
        THEN [docs |-> Append(docs, upsertDoc(query, update, reads[1], r,
                                               reads[2], reads[3])),
              ret |-> [matchedCount |-> 0, modifiedCount |-> 0]]
        ELSE [docs |-> IF i = 0 THEN docs
                       ELSE updateOneDocs(docs, query, update, reads[1]),
              ret |-> [matchedCount |-> matchedCount, modifiedCount |-> matchedCount]]

\* updateOne after the read; reads are the clock readings it takes
updateOne(docs, query, update, upsert, reads, r) ==
    LET i == FirstMatch(docs, query)
        matchedCount == IF i = 0 THEN 0 ELSE 1
    IN  IF matchedCount = 0 /\ upsert
        THEN [docs |-> Append(docs, upsertDoc(query, update, reads[1], r,
                                               reads[2], reads[3])),
              ret |-> Counts(1)]
        ELSE [docs |-> IF i = 0 THEN docs
                       ELSE updateOneDocs(docs, query, update, reads[1]),
              ret |-> Counts(matchedCount)]

\* the k-th matching document takes the k-th clock reading
Rank(docs, query, i) == Cardinality({j \in 1..i : Matches(docs[j], query)})

updateMany(docs, query, update, upsert, reads, r) ==
    LET matchedCount == MatchCount(docs, query)
        updatedDocs ==
            updateManyDocs(docs, query, update,
                           [i \in 1..Len(docs) |->
                               IF Matches(docs[i], query)
                               THEN reads[Rank(docs, query, i)] ELSE 0])
    IN  IF matchedCount = 0 /\ upsert
        THEN [docs |-> Append(updatedDocs, upsertDoc(query, update, reads[1], r,
                                                      reads[2], reads[3])),
              ret |-> Counts(1)]
        ELSE [docs |-> updatedDocs, ret |-> Counts(matchedCount)]

\* how many times an update reads the clock, and whether it draws an _id
UpdateReads(name, docs, query, upsert) ==
    LET m == IF name = "updateOne"
             THEN (IF FirstMatch(docs, query) = 0 THEN 0 ELSE 1)
             ELSE MatchCount(docs, query)
    IN  IF m > 0 THEN m ELSE IF upsert THEN 3 ELSE 0

Upserts(docs, query, upsert) == upsert /\ FirstMatch(docs, query) = 0

SaveUpdateOne(p) ==
    /\ Loaded(p, "updateOne")
    /\ LET op == call[p].op
           docs == call[p].snap
       IN  \E reads \in ClockReads(UpdateReads("updateOne", docs, op.query, op.upsert)),
              r \in IF Upserts(docs, op.query, op.upsert) THEN RandomStrings ELSE {<<0>>} :
               LET res == updateOne(docs, op.query, op.update, op.upsert, reads, r)
               IN  /\ Saved(p, res.docs, res.ret)
                   /\ now' = LastRead(reads)

SaveUpdateMany(p) ==
    /\ Loaded(p, "updateMany")
    /\ LET op == call[p].op
           docs == call[p].snap
       IN  \E reads \in ClockReads(UpdateReads("updateMany", docs, op.query, op.upsert)),
              r \in IF Upserts(docs, op.query, op.upsert) THEN RandomStrings ELSE {<<0>>} :
               LET res == updateMany(docs, op.query, op.update, op.upsert, reads, r)
               IN  /\ Saved(p, res.docs, res.ret)
                   /\ now' = LastRead(reads)

SaveDeleteOne(p) ==
    /\ Loaded(p, "deleteOne")
    /\ LET docs == call[p].snap
           filtered == deleteOneDocs(docs, call[p].op.query)
       IN  Saved(p, filtered,
                 [deletedCount |-> IF FirstMatch(docs, call[p].op.query) = 0
                                   THEN 0 ELSE 1])
    /\ UNCHANGED now

\* mutant of SaveDeleteMany: the loaded array is saved, not the filtered one
SaveDeleteManyUnfiltered(p) ==
    /\ Loaded(p, "deleteMany")
    /\ LET docs == call[p].snap
           filteredDocs == deleteManyDocs(docs, call[p].op.query)
       IN  Saved(p, docs, [deletedCount |-> Len(docs) - Len(filteredDocs)])
    /\ UNCHANGED now

SaveDeleteMany(p) ==
    /\ Loaded(p, "deleteMany")
    /\ LET docs == call[p].snap
           filteredDocs == deleteManyDocs(docs, call[p].op.query)
       IN  Saved(p, filteredDocs, [deletedCount |-> Len(docs) - Len(filteredDocs)])
    /\ UNCHANGED now

\* kv.set fails: the entry keeps its value and the method rejects
SaveFail(p) ==
    \E e \in StoreErrors :
        /\ call[p].pc = "loaded"
        /\ call' = [call EXCEPT ![p].pc = "failed", ![p].sets = 1,
                                ![p].thrown = e, ![p].ret = Raise(e)]
        /\ UNCHANGED <<kv, now, nops, writes, returned, events>>

\* the steps after the call
Proceed(p) ==
    \/ Load(p)
    \/ SaveInsertOne(p)
    \/ SaveInsertMany(p)
    \/ SaveUpdateOne(p)
    \/ SaveUpdateMany(p)
    \/ SaveDeleteOne(p)
    \/ SaveDeleteMany(p)

\* one caller at a time: no two operations overlap
Next ==
    \/ CallInsertOne(1, InputDocs)
    \/ CallInsertMany(1, Batches)
    \/ CallUpdate(1, {"updateOne", "updateMany"}, Queries, Updates)
    \/ CallDelete(1, {"deleteOne", "deleteMany"}, Queries)
    \/ CallFind(1)
    \/ Return(1)
    \/ Proceed(1)
    \/ LoadFail(1)
    \/ SaveFail(1)

Spec == Init /\ [][Next]_vars

\* callers whose operations interleave at their awaits
ConcQueries == {EmptyObj, ("status" :> Reading) @@ ("pages" :> Num(2))}
ConcUpdates == {"status" :> Completed}

NextConc ==
    \E p \in Callers :
        \/ CallInsertOne(p, {DocA})
        \/ CallInsertMany(p, {<<DocA, DocC>>})
        \/ CallUpdate(p, {"updateOne", "updateMany"}, ConcQueries, ConcUpdates)
        \/ CallDelete(p, {"deleteOne", "deleteMany"}, ConcQueries)
        \/ Proceed(p)

SpecConc == Init /\ [][NextConc]_vars

(***************************************************************************)
(* Reading: find with its options, findOne, findById and countDocuments,   *)
(* over the collections earlier runs may have stored.                      *)
(***************************************************************************)
\* null, as findOne returns it
Null == "null" :> <<5>>

\* mutant of findOne: the filter is not handed to find
findOneUnfiltered(docs, query) ==
    IF docs # <<>> THEN docs[1] ELSE Null

\* Collection.findOne: find(query, {limit: 1}), then results[0] || null (a
\* document is an object and so is truthy)
findOne(docs, query) ==
    LET results == find(docs, query, "limit" :> 1)
    IN  IF results # <<>> THEN results[1] ELSE Null

\* Collection.findById
findById(docs, id) == findOne(docs, "_id" :> id)

\* the documents callers stored: a status and two numbers
ShelfDoc(status, pages, rating) ==
    ("status" :> status) @@ ("pages" :> Num(pages)) @@ ("rating" :> Num(rating))

ShelfDocs ==
    {ShelfDoc(Reading, p, r) : p \in 1..2, r \in 1..2} \cup {ShelfDoc(Completed, 1, 1)}

\* Math.random() of the i-th document of a stored array
StoredRandom(i) == <<0, DotChar>> \o [j \in 1..i |-> 10]

\* an array as an earlier insertMany stored it
Stored(docs) ==
    StampedAll(docs, [i \in 1..(3 * Len(docs)) |-> SeedTime],
               [i \in 1..Len(docs) |-> StoredRandom(i)])

Shelves == UNION {[1..n -> ShelfDocs] : n \in 0..MaxStored}

\* five documents, as in the pagination example of the documentation
ExampleShelf ==
    <<ShelfDoc(Reading, 2, 1), ShelfDoc(Reading, 1, 2), ShelfDoc(Completed, 1, 1),
      ShelfDoc(Reading, 2, 2), ShelfDoc(Reading, 1, 1)>>

ReadEntries == {NoEntry} \cup {Entry(Stored(s)) : s \in Shelves \cup {ExampleShelf}}

InitRead ==
    /\ kv \in [Keys -> ReadEntries]
    /\ now = StartTime
    /\ nops = 0
    /\ writes = 0
    /\ returned = [only |-> FALSE, docs |-> <<>>]
    /\ call = [p \in Callers |-> Idle]
    /\ events = <<>>

\* QueryOptions: sort is the list Object.entries(options.sort) gives
SortOrders ==
    { <<<<"pages", 1>>>>,
      <<<<"pages", -1>>, <<"rating", 1>>>>,
      <<<<"rating", 1>>, <<"pages", -1>>>> }
SkipValues == 0..2
LimitValues == 0..2

ReadOptions ==
    {Spread(Spread(s, k), l) :
        s \in {EmptyObj} \cup {"sort" :> o : o \in SortOrders},
        k \in {EmptyObj} \cup {"skip" :> n : n \in SkipValues},
        l \in {EmptyObj} \cup {"limit" :> n : n \in LimitValues}}

ReadQueries == {EmptyObj, "status" :> Reading}

\* an _id no stored document has and the _id of the first stored document
ReadIds == {KnownId, generateId(SeedTime, StoredRandom(1))}

CallFindWith(p, queries, options) ==
    \E c \in Colls, q \in queries, o \in options :
        /\ Begin(p, [NoOp EXCEPT !.name = "find", !.coll = c, !.query = q,
                       !.options = o])
        /\ UNCHANGED now

CallFindOne(p, queries) ==
    \E c \in Colls, q \in queries :
        /\ Begin(p, [NoOp EXCEPT !.name = "findOne", !.coll = c, !.query = q])
        /\ UNCHANGED now

\* findById(id) calls findOne({_id: id})
CallFindById(p, ids) ==
    \E c \in Colls, id \in ids :
        /\ Begin(p, [NoOp EXCEPT !.name = "findById", !.coll = c,
                       !.query = "_id" :> id])
        /\ UNCHANGED now

\* findOne and findById return right after the read
ReturnOne(p) ==
    /\ call[p].pc = "called"
    /\ call[p].op.name \in {"findOne", "findById"}
    /\ LET docs == getAllDocuments(call[p].op.coll)
           op == call[p].op
       IN  call' = [call EXCEPT
               ![p].pc = "done",
               ![p].snap = docs,
               ![p].gets = 1,
               ![p].readAt = writes,
               ![p].ret = IF op.name = "findOne"
                          THEN Ok(findOne(docs, op.query))
                          ELSE Ok(findById(docs, op.query["_id"]))]
    /\ UNCHANGED <<kv, now, nops, writes, returned, events>>

\* the keys given to createIndex
IndexKeys == {"pages" :> 1, "rating" :> -1}

\* Collection.createIndex: a console.log and nothing else; no await, so
\* the call and its return are one step
CreateIndex(p) ==
    \E c \in Colls, keys \in IndexKeys :
        /\ call[p].pc \in {"idle", "done", "failed"}
        /\ nops < MaxOps
        /\ nops' = nops + 1
        /\ call' = [call EXCEPT ![p] =
               [Idle EXCEPT !.pc = "done",
                            !.op = [NoOp EXCEPT !.name = "createIndex", !.coll = c,
                                                !.options = keys],
                            !.before = kv[getKey(c)]]]
        /\ UNCHANGED <<kv, now, writes, returned, events>>

NextRead ==
    \/ CallFindWith(1, ReadQueries, ReadOptions)
    \/ CallFind(1)
    \/ CallFindOne(1, ReadQueries)
    \/ CallFindById(1, ReadIds)
    \/ Return(1)
    \/ ReturnOne(1)
    \/ LoadFail(1)
    \/ CreateIndex(1)

SpecRead == InitRead /\ [][NextRead]_vars

(***************************************************************************)
(* Databases: collections made by Database.collection under several        *)
(* database names, Collection.drop and Database.listCollections.           *)
(***************************************************************************)
\* key.startsWith(prefix)
StartsWith(key, prefix) ==
    Len(key) >= Len(prefix) /\ SubSeq(key, 1, Len(prefix)) = prefix

\* key.split('_'): the pieces between the underscores
RECURSIVE Split(_)
Split(s) ==
    IF \A i \in 1..Len(s) : s[i] # "_" THEN <<s>>
    ELSE LET i == CHOOSE j \in 1..Len(s) :
                      s[j] = "_" /\ \A m \in 1..(j - 1) : s[m] # "_"
         IN  <<SubSeq(s, 1, i - 1)>> \o Split(SubSeq(s, i + 1, Len(s)))

\* parts.join('_')
RECURSIVE Join(_)
Join(parts) ==
    IF parts = <<>> THEN <<>>
    ELSE IF Len(parts) = 1 THEN parts[1]
    ELSE parts[1] \o <<"_">> \o Join(Tail(parts))

\* spark.kv.keys(): the keys that have an entry
StoredKeys == {k \in DOMAIN kv : kv[k].present}

\* Database.listCollections; the order of kv.keys() is the store's, so the
\* names are given as a set
listCollections(dbName) ==
    LET dbKeys == {key \in StoredKeys :
                      StartsWith(key, <<"db", "_">> \o dbName \o <<"_">>)}
    IN  {Join(SliceFrom(Split(key), 2)) : key \in dbKeys}

DbNames == {DefaultDb, <<"bookvault", "_", "test">>}
CollNames == {<<"books">>, <<"test", "_", "books">>}
DbKeys == {getKey(collectionName(d, n)) : d \in DbNames, n \in CollNames}

InitDb ==
    /\ kv = [k \in DbKeys |-> NoEntry]
    /\ now = StartTime
    /\ nops = 0
    /\ writes = 0
    /\ returned = [only |-> FALSE, docs |-> <<>>]
    /\ call = [p \in Callers |-> Idle]
    /\ events = <<>>

\* an operation on Database(d).collection(n)
DbOp(name, d, n) ==
    [NoOp EXCEPT !.name = name, !.coll = collectionName(d, n), !.via = <<d, n>>]

CallDbInsertOne(p) ==
    \E d \in DbNames, n \in CollNames, reads \in ClockReads(3), r \in RandomStrings :
        /\ BeginWithin(p, [DbOp("insertOne", d, n) EXCEPT
                              !.docs = <<Stamped(DocA, reads[1], r, reads[2], reads[3])>>],
                       MaxDbOps)
        /\ now' = reads[3]

CallDbRead(p) ==
    \E d \in DbNames, n \in CollNames, name \in {"find", "countDocuments"} :
        /\ BeginWithin(p, DbOp(name, d, n), MaxDbOps)
        /\ UNCHANGED now

\* Collection.drop has no code before its await
CallDrop(p) ==
    \E d \in DbNames, n \in CollNames :
        /\ BeginWithin(p, DbOp("drop", d, n), MaxDbOps)
        /\ UNCHANGED now

\* mutant of Drop: the entry is emptied by a set, not removed
DropEmptied(p) ==
    /\ call[p].pc = "called"
    /\ call[p].op.name = "drop"
    /\ kv' = [kv EXCEPT ![getKey(call[p].op.coll)] = Entry(<<>>)]
    /\ events' = Append(events, DeleteEvent(p, getKey(call[p].op.coll)))
    /\ writes' = writes + 1
    /\ call' = [call EXCEPT ![p].pc = "done", ![p].ret = Ok(<<>>)]
    /\ UNCHANGED <<now, nops, returned>>

\* Collection.drop: await spark.kv.delete(key) removes the entry, if any
Drop(p) ==
    /\ call[p].pc = "called"
    /\ call[p].op.name = "drop"
    /\ kv' = [kv EXCEPT ![getKey(call[p].op.coll)] = NoEntry]
    /\ events' = Append(events, DeleteEvent(p, getKey(call[p].op.coll)))
    /\ writes' = writes + 1
    /\ call' = [call EXCEPT ![p].pc = "done", ![p].ret = Ok(<<>>)]
    /\ UNCHANGED <<now, nops, returned>>

\* kv.delete fails: the entry stays and drop rejects
DropFail(p) ==
    \E e \in StoreErrors :
        /\ call[p].pc = "called"
        /\ call[p].op.name = "drop"
        /\ call' = [call EXCEPT ![p].pc = "failed", ![p].thrown = e,
                                ![p].ret = Raise(e)]
        /\ UNCHANGED <<kv, now, nops, writes, returned, events>>

\* Database(d).listCollections(): one kv.keys() and a computation on it
ListCollections(p) ==
    \E d \in DbNames :
        /\ call[p].pc \in {"idle", "done", "failed"}
        /\ nops < MaxDbOps
        /\ nops' = nops + 1
        /\ call' = [call EXCEPT ![p] =
               [Idle EXCEPT !.pc = "done",
                            !.op = [NoOp EXCEPT !.name = "listCollections",
                                                !.via = <<d, <<>>>>],
                            !.ret = Ok(listCollections(d))]]
        /\ UNCHANGED <<kv, now, writes, returned, events>>

\* the orders in which kv.keys() may list the keys ks
Orders(ks) ==
    {s \in [1..Cardinality(ks) -> ks] :
        \A i, j \in 1..Cardinality(ks) : i # j => s[i] # s[j]}

\* Database(d).drop() up to its loop: kv.keys() and the filter on the
\* prefix; with no key to delete it returns at once.  before is the whole
\* store as drop found it.
DbDropKeys(p) ==
    \E d \in DbNames :
        \E dbKeys \in Orders({key \in StoredKeys :
                                 StartsWith(key, <<"db", "_">> \o d \o <<"_">>)}) :
            /\ call[p].pc \in {"idle", "done", "failed"}
            /\ nops < MaxDbOps
            /\ nops' = nops + 1
            /\ call' = [call EXCEPT ![p] =
                   [Idle EXCEPT !.pc = IF dbKeys = <<>> THEN "done" ELSE "dropping",
                                !.op = [NoOp EXCEPT !.name = "dropDatabase",
                                                    !.via = <<d, <<>>>>],
                                !.before = kv,
                                !.keys = dbKeys]]
            /\ UNCHANGED <<kv, now, writes, returned, events>>

\* mutant of DbDropFail: the keys deleted so far are put back
DbDropFailRollback(p) ==
    \E e \in StoreErrors :
        /\ call[p].pc = "dropping"
        /\ kv' = call[p].before
        /\ call' = [call EXCEPT ![p].pc = "failed", ![p].thrown = e,
                                ![p].ret = Raise(e)]
        /\ UNCHANGED <<now, nops, writes, returned, events>>

\* one turn of the loop: await spark.kv.delete(key); after the last key
\* drop returns
DbDropDelete(p) ==
    /\ call[p].pc = "dropping"
    /\ LET key == call[p].keys[call[p].at + 1]
       IN  /\ kv' = [kv EXCEPT ![key] = NoEntry]
           /\ events' = Append(events, DeleteEvent(p, key))
    /\ call' = [call EXCEPT
           ![p].at = @ + 1,
           ![p].pc = IF call[p].at + 1 = Len(call[p].keys) THEN "done" ELSE "dropping"]
    /\ writes' = writes + 1
    /\ UNCHANGED <<now, nops, returned>>

\* a kv.delete of the loop fails: drop rejects where it stands
DbDropFail(p) ==
    \E e \in StoreErrors :
        /\ call[p].pc = "dropping"
        /\ call' = [call EXCEPT ![p].pc = "failed", ![p].thrown = e,
                                ![p].ret = Raise(e)]
        /\ UNCHANGED <<kv, now, nops, writes, returned, events>>

NextDb ==
    \/ CallDbInsertOne(1)
    \/ CallDbRead(1)
    \/ CallDrop(1)
    \/ Load(1)
    \/ SaveInsertOne(1)
    \/ Return(1)
    \/ Drop(1)
    \/ DropFail(1)
    \/ ListCollections(1)
    \/ DbDropKeys(1)
    \/ DbDropDelete(1)
    \/ DbDropFail(1)

SpecDb == InitDb /\ [][NextDb]_vars


(***************************************************************************)
(* Two collections of the one database, 'books' and 'users', and callers   *)
(* whose operations on them interleave at their awaits.                    *)
(***************************************************************************)
UsersColl == collectionName(DefaultDb, <<"users">>)
TwoNames == {<<"books">>, <<"users">>}
TwoKeys == {getKey(collectionName(DefaultDb, n)) : n \in TwoNames}

InitTwo ==
    /\ kv \in [TwoKeys -> InitialEntries]
    /\ now = StartTime
    /\ nops = 0
    /\ writes = 0
    /\ returned = [only |-> FALSE, docs |-> <<>>]
    /\ call = [p \in Callers |-> Idle]
    /\ events = <<>>

TwoQueries == {EmptyObj, "pages" :> Num(2)}

CallTwoInsertOne(p) ==
    \E n \in TwoNames, reads \in ClockReads(3), r \in RandomStrings :
        /\ Begin(p, [DbOp("insertOne", DefaultDb, n) EXCEPT
                        !.docs = <<Stamped(DocA, reads[1], r, reads[2], reads[3])>>])
        /\ now' = reads[3]

CallTwoUpdate(p) ==
    \E n \in TwoNames, name \in {"updateOne", "updateMany"}, q \in TwoQueries,
       up \in BOOLEAN :
        /\ Begin(p, [DbOp(name, DefaultDb, n) EXCEPT
                        !.query = q, !.update = "status" :> Completed, !.upsert = up])
        /\ UNCHANGED now

CallTwoDelete(p) ==
    \E n \in TwoNames, name \in {"deleteOne", "deleteMany"}, q \in TwoQueries :
        /\ Begin(p, [DbOp(name, DefaultDb, n) EXCEPT !.query = q])
        /\ UNCHANGED now

CallTwoDrop(p) ==
    \E n \in TwoNames :
        /\ Begin(p, DbOp("drop", DefaultDb, n))
        /\ UNCHANGED now

CallTwoRead(p) ==
    \E n \in TwoNames, name \in {"find", "countDocuments"}, q \in TwoQueries :
        /\ Begin(p, [DbOp(name, DefaultDb, n) EXCEPT !.query = q])
        /\ UNCHANGED now

NextTwo ==
    \E p \in Callers :
        \/ CallTwoInsertOne(p)
        \/ CallTwoUpdate(p)
        \/ CallTwoDelete(p)
        \/ CallTwoDrop(p)
        \/ CallTwoRead(p)
        \/ Load(p)
        \/ SaveInsertOne(p)
        \/ SaveUpdateOne(p)
        \/ SaveUpdateMany(p)
        \/ SaveDeleteOne(p)
        \/ SaveDeleteMany(p)
        \/ Return(p)
        \/ Drop(p)

SpecTwo == InitTwo /\ [][NextTwo]_vars


(***************************************************************************)
(* Vocabulary of the properties.                                           *)
(***************************************************************************)
Range(seq) == {seq[i] : i \in 1..Len(seq)}

\* how many times d occurs in seq
Occurrences(d, seq) == Cardinality({i \in 1..Len(seq) : seq[i] = d})

\* d equals the filter on every filter field, by ===
EqualsFilter(d, query) ==
    \A k \in DOMAIN query : StrictEq(Field(d, k), query[k])

EngineFields == {"_id", "createdAt", "updatedAt"}

Done(p, name) == call[p].pc = "done" /\ call[p].op.name = name

\* the persisted documents of the collection p works on
Persisted(p) == kv[getKey(call[p].op.coll)].docs

\* no document equals the filter
NoneMatches(docs, query) == \A i \in 1..Len(docs) : ~EqualsFilter(docs[i], query)

\* p has completed an updateOne with upsert set that found no match
Upserted(p) ==
    /\ Done(p, "updateOne")
    /\ call[p].op.upsert
    /\ NoneMatches(call[p].snap, call[p].op.query)

\* docs[i] is the first document, in order, that equals the filter
IsFirstMatch(docs, query, i) ==
    /\ i \in 1..Len(docs)
    /\ EqualsFilter(docs[i], query)
    /\ \A j \in 1..(i - 1) : ~EqualsFilter(docs[j], query)

\* any n non-decreasing clock readings
AnyReads(n) ==
    {s \in [1..n -> Times] : \A i \in 1..(n - 1) : s[i] <= s[i + 1]}

\* out is what operation op computes from the loaded documents snap
ResultOf(op, snap, out) ==
    CASE op.name = "insertOne" -> out = Append(snap, op.docs[1])
      [] op.name = "insertMany" -> out = snap \o op.docs
      [] op.name = "deleteOne" -> out = deleteOneDocs(snap, op.query)
      [] op.name = "deleteMany" -> out = deleteManyDocs(snap, op.query)
      [] op.name = "updateOne" ->
            \E reads \in AnyReads(UpdateReads("updateOne", snap, op.query, op.upsert)),
               r \in RandomStrings :
                out = updateOne(snap, op.query, op.update, op.upsert, reads, r).docs
      [] op.name = "updateMany" ->
            \E reads \in AnyReads(UpdateReads("updateMany", snap, op.query, op.upsert)),
               r \in RandomStrings :
                out = updateMany(snap, op.query, op.update, op.upsert, reads, r).docs
      [] OTHER -> FALSE

\* p and q have both completed a mutating operation on one collection,
\* both read its entry before either wrote it, and q's write landed second
\* and is the last write so far
BothReadThenWrote(p, q) ==
    /\ p # q
    /\ call[p].pc = "done" /\ call[q].pc = "done"
    /\ call[p].op.name \in Mutating /\ call[q].op.name \in Mutating
    /\ call[p].op.coll = call[q].op.coll
    /\ call[p].readAt = call[q].readAt
    /\ call[p].wroteAt = call[p].readAt + 1
    /\ call[q].wroteAt = call[q].readAt + 2
    /\ writes = call[q].wroteAt

\* the options without skip and limit
WithoutPaging(options) ==
    [k \in DOMAIN options \ {"skip", "limit"} |-> options[k]]

\* the stored documents that equal the filter, in stored order
MatchingDocs(docs, query) == SelectSeq(docs, LAMBDA d : EqualsFilter(d, query))

\* where d stands in docs
IndexOf(d, docs) == CHOOSE i \in 1..Len(docs) : docs[i] = d

\* the number a document holds in field f
NumOf(d, f) == Field(d, f)[2]

\* a and b hold the same value in the first n fields of the sort order
TiedUpTo(a, b, order, n) ==
    \A m \in 1..n : Field(a, order[m][1]) = Field(b, order[m][1])

\* the sort order puts a strictly before b: on the first field where they
\* differ a is the smaller if the direction is 1, the larger if it is -1
Before(a, b, order) ==
    \E k \in 1..Len(order) :
        /\ TiedUpTo(a, b, order, k - 1)
        /\ IF order[k][2] = 1
           THEN NumOf(a, order[k][1]) < NumOf(b, order[k][1])
           ELSE NumOf(a, order[k][1]) > NumOf(b, order[k][1])


\* the fields of d the engine did not stamp
OwnFields(d) == [f \in DOMAIN d \ EngineFields |-> d[f]]

\* the storage key of the collection made from the names via = <<d, n>>
KeyOf(via) == <<"db", "_">> \o via[1] \o <<"_">> \o via[2]

\* the last store call that landed
LastEvent == events[Len(events)]

\* the i-th store call wrote, through Database(d), a collection that no
\* later call removed
WrittenAndKept(i, d) ==
    /\ events[i].kind = "set"
    /\ events[i].via[1] = d
    /\ \A j \in (i + 1)..Len(events) :
           ~(events[j].kind = "delete" /\ events[j].key = events[i].key)

\* the database through which the entry of key was last written before
\* the i-th store call
WriterBefore(key, i) ==
    LET j == CHOOSE j \in 1..(i - 1) :
                 /\ events[j].kind = "set" /\ events[j].key = key
                 /\ \A m \in (j + 1)..(i - 1) :
                        ~(events[m].kind = "set" /\ events[m].key = key)
    IN  events[j].via[1]

\* the filter names a field that none of docs has
NamesMissingField(query, docs) ==
    \E k \in DOMAIN query : \A i \in 1..Len(docs) : k \notin DOMAIN docs[i]

\* p has completed an updateOne or updateMany that took the upsert branch
UpsertTaken(p) ==
    /\ call[p].pc = "done"
    /\ call[p].op.name \in {"updateOne", "updateMany"}
    /\ call[p].op.upsert
    /\ Len(call[p].out) = Len(call[p].snap) + 1

\* what the update op can give when run on docs
Reruns(op, docs) ==
    {IF op.name = "updateOne"
     THEN updateOne(docs, op.query, op.update, op.upsert, reads, r)
     ELSE updateMany(docs, op.query, op.update, op.upsert, reads, r) :
        reads \in AnyReads(UpdateReads(op.name, docs, op.query, op.upsert)),
        r \in RandomStrings}

\* sub is seq with some elements left out, the others in their order
IsSubsequence(sub, seq) ==
    \E f \in [1..Len(sub) -> 1..Len(seq)] :
        /\ \A k \in 1..Len(sub) : sub[k] = seq[f[k]]
        /\ \A k \in 1..(Len(sub) - 1) : f[k] < f[k + 1]

\* after is the document before as it was or with the patch merged in
SameOrPatched(before, after, update) ==
    \/ after = before
    \/ \E t \in Times : after = Merged(before, update, t)

\* no store call of an operation on p's collection has landed since p's read
OnlyOthersSince(p) ==
    \A j \in (call[p].readAt + 1)..Len(events) : events[j].via # call[p].op.via

\* the i-th store call removed a document that is in the collection now
Reappeared(i, id) ==
    /\ id \in events[i].removed
    /\ id \in Ids(kv[events[i].key].docs)

\* a store call after the i-th wrote the same collection and added id
AddedLater(i, id) ==
    \E j \in (i + 1)..Len(events) :
        /\ events[j].key = events[i].key
        /\ id \in events[j].added

\* a write after the i-th store call, on the same collection, by an
\* operation that had read the collection before that call landed
StaleWriteLater(i) ==
    \E j \in (i + 1)..Len(events) :
        /\ events[j].key = events[i].key
        /\ events[j].kind = "set"
        /\ events[j].readAt < i

ReadNames == {"find", "findOne", "findById", "countDocuments"}

(***************************************************************************)
(* C1.  Lost update: when two mutating operations on one collection both   *)
(* read the entry before either writes it, the persisted sequence after    *)
(* the second write is the second writer's result computed from the        *)
(* sequence both read; the first writer's change is not in it (after two   *)
(* inserts the entry holds the loaded documents and the second writer's    *)
(* new documents only), and both operations returned normally.             *)
(***************************************************************************)
C1_LostUpdate ==
    \A p, q \in Callers :
        BothReadThenWrote(p, q) =>
            /\ call[p].snap = call[q].snap
            /\ Persisted(q) = call[q].out
            /\ ResultOf(call[q].op, call[p].snap, Persisted(q))
            /\ call[p].ret.ok /\ call[q].ret.ok
            /\ ({call[p].op.name, call[q].op.name} \subseteq {"insertOne", "insertMany"}
                  => Len(Persisted(q)) = Len(call[p].snap) + Len(call[q].op.docs))

\* two overlapping insertOne calls both returned their document and the
\* first writer's document is not persisted
C1_Witness ==
    \E p, q \in Callers :
        /\ BothReadThenWrote(p, q)
        /\ call[p].op.name = "insertOne" /\ call[q].op.name = "insertOne"
        /\ call[p].ret.val \notin Range(Persisted(q))
        /\ call[q].ret.val \in Range(Persisted(q))
        /\ call[p].snap # <<>>

(***************************************************************************)
(* C2.  Store failure: when the kv.get or the kv.set of a mutating         *)
(* operation fails, the operation raises the error the store gave, has     *)
(* called get and set at most once each (set not at all after a failed     *)
(* get), has written nothing, and the persisted entry is the one the       *)
(* operation found when it started.                                        *)
(***************************************************************************)
C2_StoreFailure ==
    \A p \in Callers :
        (call[p].pc = "failed" /\ call[p].op.name \in Mutating) =>
            /\ call[p].thrown \in StoreErrors
            /\ call[p].ret = Err(call[p].thrown)
            /\ call[p].gets = 1
            /\ call[p].sets <= 1
            /\ call[p].wroteAt = 0
            /\ kv[getKey(call[p].op.coll)] = call[p].before

\* the set of an updateOne that had merged its patch into a document failed
C2_Witness ==
    \E p \in Callers :
        /\ call[p].pc = "failed"
        /\ call[p].op.name = "updateOne"
        /\ call[p].sets = 1
        /\ FirstMatch(call[p].snap, call[p].op.query) # 0
        /\ call[p].snap = kv[getKey(call[p].op.coll)].docs

(***************************************************************************)
(* C3.  find(filter) returns exactly the stored documents that equal the   *)
(* filter on every filter field by === (value equality of primitives; an   *)
(* object such as {$gte: 200} is a value like any other and is never read  *)
(* as a range): every returned document equals the filter on every filter  *)
(* field, every stored document left out differs on some filter field,     *)
(* and each document is returned as often as it is stored.                 *)
(***************************************************************************)
C3_FindExactMatch ==
    \A p \in Callers :
        (Done(p, "find") /\ call[p].op.options = EmptyObj) =>
            LET stored == call[p].snap
                result == call[p].ret.val
                query == call[p].op.query
            IN  /\ \A d \in Range(result) :
                       /\ d \in Range(stored)
                       /\ EqualsFilter(d, query)
                       /\ Occurrences(d, result) = Occurrences(d, stored)
                /\ \A d \in Range(stored) \ Range(result) :
                       \E k \in DOMAIN query : ~StrictEq(Field(d, k), query[k])
                /\ \A k \in DOMAIN query, d \in Range(result) :
                       query[k] = GteObj(1) => Field(d, k) = GteObj(1)

\* a find with a two-field filter returned one stored document and left out
\* another that equals the filter on one of the two fields
C3_Witness ==
    \E p \in Callers :
        /\ Done(p, "find")
        /\ Cardinality(DOMAIN call[p].op.query) = 2
        /\ call[p].ret.val # <<>>
        /\ \E d \in Range(call[p].snap) \ Range(call[p].ret.val) :
               \E k \in DOMAIN call[p].op.query :
                   StrictEq(Field(d, k), call[p].op.query[k])


(***************************************************************************)
(* C4.  Upsert: updateOne(filter, patch, {upsert: true}) that finds no     *)
(* matching document appends exactly one document; its fields other than   *)
(* _id, createdAt and updatedAt are those of the filter and of the patch,  *)
(* the patch winning on a shared field; its _id is one the generator       *)
(* gives and its createdAt and updatedAt are readings of the clock;        *)
(* countDocuments({}) grows by one and the documents already stored are    *)
(* unchanged.                                                              *)
(***************************************************************************)
C4_UpsertAddsOne ==
    \A p \in Callers :
        Upserted(p) =>
            LET before == call[p].snap
                after == Persisted(p)
                query == call[p].op.query
                patch == call[p].op.update
                added == after[Len(after)]
                visible == (DOMAIN query \cup DOMAIN patch) \ EngineFields
            IN  /\ Len(after) = Len(before) + 1
                /\ SubSeq(after, 1, Len(before)) = before
                /\ DOMAIN added = visible \cup EngineFields
                /\ \A k \in visible :
                       added[k] = IF k \in DOMAIN patch THEN patch[k] ELSE query[k]
                /\ \E t \in Times, r \in RandomStrings : added["_id"] = generateId(t, r)
                /\ \E t1, t2 \in Times :
                       /\ added["createdAt"] = DateOf(t1)
                       /\ added["updatedAt"] = DateOf(t2)
                /\ countDocuments(after, EmptyObj) = countDocuments(before, EmptyObj) + 1

\* an upsert into a collection that held a document, with a filter and a
\* patch that share a field
C4_Witness ==
    \E p \in Callers :
        /\ Upserted(p)
        /\ call[p].snap # <<>>
        /\ (DOMAIN call[p].op.query \cap DOMAIN call[p].op.update) \ EngineFields # {}

(***************************************************************************)
(* C5.  updateOne(filter, patch) changes only the first document, in       *)
(* collection order, that matches filter: it gets the patch's fields       *)
(* merged over its own and updatedAt set to the clock's reading; every     *)
(* other document, matching or not, is stored back unchanged, and the      *)
(* number of documents stays the same.                                     *)
(***************************************************************************)
C5_UpdateOneFirstMatchOnly ==
    \A p \in Callers :
        Done(p, "updateOne") =>
            \A i \in 1..Len(call[p].snap) :
                IsFirstMatch(call[p].snap, call[p].op.query, i) =>
                    LET before == call[p].snap
                        after == Persisted(p)
                        patch == call[p].op.update
                    IN  /\ Len(after) = Len(before)
                        /\ \A j \in 1..Len(before) : j # i => after[j] = before[j]
                        /\ DOMAIN after[i] =
                               DOMAIN before[i] \cup DOMAIN patch \cup {"updatedAt"}
                        /\ after[i]["updatedAt"] = DateOf(now)
                        /\ \A k \in DOMAIN after[i] \ {"updatedAt"} :
                               after[i][k] = IF k \in DOMAIN patch THEN patch[k]
                                             ELSE before[i][k]

\* an updateOne whose filter matched two documents, at a later clock reading
\* than the first one's updatedAt
C5_Witness ==
    \E p \in Callers :
        /\ Done(p, "updateOne")
        /\ MatchCount(call[p].snap, call[p].op.query) >= 2
        /\ \E i \in 1..Len(call[p].snap) :
               /\ IsFirstMatch(call[p].snap, call[p].op.query, i)
               /\ Persisted(p)[i]["updatedAt"] # call[p].snap[i]["updatedAt"]

(***************************************************************************)
(* C6.  deleteMany(filter) removes all and only the matching documents:    *)
(* no persisted document matches afterwards, every document that did not   *)
(* match is persisted as often as before, deletedCount is the number of    *)
(* documents that matched, and countDocuments({}) drops by deletedCount.   *)
(***************************************************************************)
C6_DeleteManyAllAndOnly ==
    \A p \in Callers :
        Done(p, "deleteMany") =>
            LET before == call[p].snap
                after == Persisted(p)
                query == call[p].op.query
                matching == {i \in 1..Len(before) : EqualsFilter(before[i], query)}
            IN  /\ \A d \in Range(after) : ~EqualsFilter(d, query)
                /\ \A d \in Range(before) :
                       ~EqualsFilter(d, query) =>
                           Occurrences(d, after) = Occurrences(d, before)
                /\ Range(after) \subseteq Range(before)
                /\ call[p].ret.val.deletedCount = Cardinality(matching)
                /\ countDocuments(after, EmptyObj) =
                       countDocuments(before, EmptyObj) - call[p].ret.val.deletedCount

\* a deleteMany that removed two documents and kept one
C6_Witness ==
    \E p \in Callers :
        /\ Done(p, "deleteMany")
        /\ call[p].ret.val.deletedCount = 2
        /\ Len(Persisted(p)) = 1

(***************************************************************************)
(* C7.  After N insertOne calls, one after another, on an empty            *)
(* collection, find({}) returns exactly N documents: each document an      *)
(* insertOne returned, as often as it was returned, and nothing else.      *)
(***************************************************************************)
C7_FindAllAfterInserts ==
    returned.only =>
        \A c \in Colls :
            LET result == find(getAllDocuments(c), EmptyObj, EmptyObj)
            IN  /\ Len(result) = Len(returned.docs)
                /\ \A d \in Range(result) \cup Range(returned.docs) :
                       Occurrences(d, result) = Occurrences(d, returned.docs)
                /\ \A p \in Callers :
                       (Done(p, "find") /\ call[p].op.query = EmptyObj)
                           => call[p].ret.val = result

\* two insertOne calls have returned different documents
C7_Witness ==
    /\ returned.only
    /\ Len(returned.docs) = 2
    /\ returned.docs[1] # returned.docs[2]
    /\ call[1].pc = "done"


(***************************************************************************)
(* C8.  _id and createdAt are immutable: after an updateOne or updateMany, *)
(* whatever its patch carries, every document that was stored has the _id  *)
(* and the createdAt it had.                                               *)
(***************************************************************************)
C8_IdAndCreatedAtImmutable ==
    \A p \in Callers :
        (Done(p, "updateOne") \/ Done(p, "updateMany")) =>
            \A i \in 1..Len(call[p].snap) :
                /\ Persisted(p)[i]["_id"] = call[p].snap[i]["_id"]
                /\ Persisted(p)[i]["createdAt"] = call[p].snap[i]["createdAt"]

(***************************************************************************)
(* C9.  In every reachable state no two documents of a collection have     *)
(* the same _id.                                                           *)
(***************************************************************************)
C9_UniqueIds ==
    \A k \in Keys :
        \A i, j \in 1..Len(kv[k].docs) :
            i # j => kv[k].docs[i]["_id"] # kv[k].docs[j]["_id"]

(***************************************************************************)
(* C10.  Every document insertOne returns has a non-empty _id and a        *)
(* createdAt equal to its updatedAt, whatever the time of the insert.      *)
(***************************************************************************)
C10_InsertOneStamps ==
    \A p \in Callers :
        Done(p, "insertOne") =>
            /\ call[p].ret.val["_id"] # Str(<<>>)
            /\ call[p].ret.val["createdAt"] = call[p].ret.val["updatedAt"]

(***************************************************************************)
(* C11.  find applies filter, then sort, then skip, then limit: with skip  *)
(* s and limit n the result is the elements at positions s+1 .. s+n (fewer *)
(* if the list is shorter) of the sorted list of the matching documents,   *)
(* the list the same find gives without skip and limit.                    *)
(***************************************************************************)
C11_SkipThenLimit ==
    \A p \in Callers :
        (Done(p, "find") /\ {"skip", "limit"} \subseteq DOMAIN call[p].op.options) =>
            LET options == call[p].op.options
                sorted == find(call[p].snap, call[p].op.query, WithoutPaging(options))
                s == options["skip"]
                n == options["limit"]
            IN  call[p].ret.val = SubSeq(sorted, s + 1, Min(s + n, Len(sorted)))

(***************************************************************************)
(* C12.  For every limit n >= 0 passed to find, zero included, the result  *)
(* holds at most n documents; for every skip s >= 0 it holds at most       *)
(* max(0, matches - s) documents.                                          *)
(***************************************************************************)
C12_LimitAndSkipBound ==
    \A p \in Callers :
        Done(p, "find") =>
            LET options == call[p].op.options
                matches == Len(MatchingDocs(call[p].snap, call[p].op.query))
                result == call[p].ret.val
            IN  /\ "limit" \in DOMAIN options => Len(result) <= options["limit"]
                /\ "skip" \in DOMAIN options =>
                       Len(result) <= (IF matches > options["skip"]
                                       THEN matches - options["skip"] ELSE 0)

C17_DropIdempotent ==
    \A p \in Callers :
        /\ Done(p, "drop") =>
               LET docs == getAllDocuments(call[p].op.coll)
               IN  /\ call[p].ret.ok
                   /\ kv[getKey(call[p].op.coll)] = NoEntry
                   /\ find(docs, EmptyObj, EmptyObj) = <<>>
                   /\ countDocuments(docs, EmptyObj) = 0
                   /\ LastEvent.kind = "delete"
                   /\ LastEvent.key = getKey(call[p].op.coll)
        /\ ( /\ Done(p, "find") \/ Done(p, "countDocuments")
             /\ events # <<>>
             /\ LastEvent.kind = "delete"
             /\ LastEvent.key = getKey(call[p].op.coll) ) =>
               call[p].ret = IF call[p].op.name = "find" THEN Ok(<<>>) ELSE Ok(0)
        /\ (call[p].pc = "failed" /\ call[p].op.name = "drop") =>
               /\ call[p].thrown \in StoreErrors
               /\ kv[getKey(call[p].op.coll)] = call[p].before

\* drop has returned for the second time in a row on one collection: the
\* first removed an entry, the second found none
C17_Witness ==
    \E p \in Callers :
        /\ Done(p, "drop")
        /\ Len(events) >= 2
        /\ LastEvent.kind = "delete" /\ ~LastEvent.had
        /\ events[Len(events) - 1].kind = "delete"
        /\ events[Len(events) - 1].key = LastEvent.key
        /\ events[Len(events) - 1].via = LastEvent.via
        /\ events[Len(events) - 1].had

(***************************************************************************)
(* C18.  insertMany(docs) stamps each input document with an _id the       *)
(* generator gives and with createdAt and updatedAt read from the clock    *)
(* for that document, keeps its other fields, and returns the stamped      *)
(* documents in input order; it appends them after all stored documents    *)
(* in that order with a single store write: until that write lands, and    *)
(* if it fails, the persisted entry is the one the operation found, and    *)
(* afterwards it holds the whole batch.                                    *)
(***************************************************************************)
C18_InsertManyBatch ==
    \A p \in Callers :
        call[p].op.name = "insertMany" =>
            /\ call[p].pc \in {"called", "loaded", "failed"} =>
                   kv[getKey(call[p].op.coll)] = call[p].before
            /\ call[p].pc = "done" =>
                   LET ret == call[p].ret.val
                   IN  /\ \E docs \in Batches :
                              /\ Len(ret) = Len(docs)
                              /\ \A i \in 1..Len(docs) :
                                     /\ OwnFields(ret[i]) = docs[i]
                                     /\ DOMAIN ret[i] = DOMAIN docs[i] \cup EngineFields
                       /\ \A i \in 1..Len(ret) :
                              /\ \E t \in Times, r \in RandomStrings :
                                     ret[i]["_id"] = generateId(t, r)
                              /\ \E t1, t2 \in Times :
                                     /\ t1 <= t2
                                     /\ ret[i]["createdAt"] = DateOf(t1)
                                     /\ ret[i]["updatedAt"] = DateOf(t2)
                       /\ Persisted(p) = call[p].snap \o ret
                       /\ call[p].sets = 1
                       /\ call[p].wroteAt = call[p].readAt + 1

\* an insertMany of two documents into a collection that held documents
\* returned them stamped at different clock readings
C18_Witness ==
    \E p \in Callers :
        /\ Done(p, "insertMany")
        /\ call[p].snap # <<>>
        /\ Len(call[p].ret.val) = 2
        /\ call[p].ret.val[1]["createdAt"] # call[p].ret.val[2]["createdAt"]
        /\ Len(Persisted(p)) = Len(call[p].snap) + 2

(***************************************************************************)
(* C19.  Not-found is a value, never an error: findOne(filter) returns the *)
(* first document, in collection order, that matches filter, and null when *)
(* none matches; findById(id) returns the first document whose _id is id,  *)
(* as findOne({_id: id}) does, and null when there is none; on no match    *)
(* find returns the empty list and countDocuments returns 0.  All of them  *)
(* return normally, and a reading operation raises only the error the      *)
(* store gave.                                                             *)
(***************************************************************************)
C19_NotFoundIsAValue ==
    \A p \in Callers :
        LET op == call[p].op
            snap == call[p].snap
            ret == call[p].ret
        IN  /\ (Done(p, "findOne") \/ Done(p, "findById")) =>
                   /\ ret.ok
                   /\ \A i \in 1..Len(snap) :
                          IsFirstMatch(snap, op.query, i) => ret.val = snap[i]
                   /\ NoneMatches(snap, op.query) => ret.val = Null
            /\ Done(p, "findById") =>
                   /\ DOMAIN op.query = {"_id"}
                   /\ ret.val = findOne(snap, "_id" :> op.query["_id"])
            /\ (Done(p, "find") /\ NoneMatches(snap, op.query)) =>
                   ret.ok /\ ret.val = <<>>
            /\ (Done(p, "countDocuments") /\ NoneMatches(snap, op.query)) =>
                   ret.ok /\ ret.val = 0
            /\ (call[p].pc = "failed" /\ op.name \in ReadNames) =>
                   call[p].thrown \in StoreErrors /\ ret = Err(call[p].thrown)

\* a findOne over stored documents none of which matches returned null
C19_Witness ==
    \E p \in Callers :
        /\ Done(p, "findOne")
        /\ call[p].snap # <<>>
        /\ NoneMatches(call[p].snap, call[p].op.query)
        /\ call[p].ret.val = Null

(***************************************************************************)
(* C14.  updateOne returns {matchedCount, modifiedCount} equal to 0/0 when *)
(* no document matches and upsert is not set, 1/1 when a document matches, *)
(* and 1/1 when no document matches and upsert is set; no other pair is    *)
(* ever returned.                                                          *)
(***************************************************************************)
C14_UpdateOneCounts ==
    \A p \in Callers :
        Done(p, "updateOne") =>
            LET none == NoneMatches(call[p].snap, call[p].op.query)
                ret == call[p].ret.val
            IN  /\ (none /\ ~call[p].op.upsert) =>
                       ret = [matchedCount |-> 0, modifiedCount |-> 0]
                /\ ~none => ret = [matchedCount |-> 1, modifiedCount |-> 1]
                /\ (none /\ call[p].op.upsert) =>
                       ret = [matchedCount |-> 1, modifiedCount |-> 1]
                /\ <<ret.matchedCount, ret.modifiedCount>> \in {<<0, 0>>, <<1, 1>>}

\* an updateOne with upsert set found no match among the stored documents
\* and reported 1/1
C14_Witness ==
    \E p \in Callers :
        /\ Done(p, "updateOne")
        /\ call[p].op.upsert
        /\ call[p].snap # <<>>
        /\ NoneMatches(call[p].snap, call[p].op.query)
        /\ call[p].ret.val.matchedCount = 1
        /\ Len(Persisted(p)) = Len(call[p].snap) + 1

(***************************************************************************)
(* C15.  updateMany(filter, patch) merges the patch into every document    *)
(* that matches filter, not only the first, and sets its updatedAt to a    *)
(* reading of the clock; every non-matching document is stored back        *)
(* unchanged; matchedCount = modifiedCount = the number of matching        *)
(* documents.  When that number is zero and upsert is set, one document    *)
(* made of the filter and the patch is appended and 1/1 is returned, as    *)
(* updateOne does.                                                         *)
(***************************************************************************)
C15_UpdateManyAll ==
    \A p \in Callers :
        Done(p, "updateMany") =>
            LET before == call[p].snap
                after == Persisted(p)
                query == call[p].op.query
                patch == call[p].op.update
                k == Len(MatchingDocs(before, query))
                ret == call[p].ret.val
            IN  /\ \A i \in 1..Len(before) :
                       IF EqualsFilter(before[i], query)
                       THEN /\ DOMAIN after[i] =
                                   DOMAIN before[i] \cup DOMAIN patch \cup {"updatedAt"}
                            /\ \E t \in Times : after[i]["updatedAt"] = DateOf(t)
                            /\ \A f \in DOMAIN after[i] \ {"updatedAt"} :
                                   after[i][f] = IF f \in DOMAIN patch THEN patch[f]
                                                 ELSE before[i][f]
                       ELSE after[i] = before[i]
                /\ (k > 0 \/ ~call[p].op.upsert) =>
                       /\ Len(after) = Len(before)
                       /\ ret = [matchedCount |-> k, modifiedCount |-> k]
                /\ (k = 0 /\ call[p].op.upsert) =>
                       /\ Len(after) = Len(before) + 1
                       /\ ret = [matchedCount |-> 1, modifiedCount |-> 1]
                       /\ \E reads \in AnyReads(3), r \in RandomStrings :
                              after[Len(after)] =
                                  updateOne(<<>>, query, patch, TRUE, reads, r).docs[1]

\* an updateMany merged its patch into two documents and left a third, which
\* did not match, as it was
C15_Witness ==
    \E p \in Callers :
        /\ Done(p, "updateMany")
        /\ call[p].ret.val.matchedCount = 2
        /\ Len(call[p].snap) = 3
        /\ \E i \in 1..3 : Persisted(p)[i] = call[p].snap[i]
        /\ \E i, j \in 1..3 :
               /\ i < j
               /\ Persisted(p)[i] # call[p].snap[i]
               /\ Persisted(p)[j] # call[p].snap[j]

(***************************************************************************)
(* C16.  deleteOne(filter) removes only the first document, in collection  *)
(* order, that matches filter and returns deletedCount 1, or removes       *)
(* nothing and returns 0 when none matches; when k >= 1 documents match,   *)
(* k-1 matching documents remain stored and all other documents are        *)
(* unchanged.                                                              *)
(***************************************************************************)
C16_DeleteOneFirstOnly ==
    \A p \in Callers :
        Done(p, "deleteOne") =>
            LET before == call[p].snap
                after == Persisted(p)
                query == call[p].op.query
                k == Len(MatchingDocs(before, query))
            IN  /\ NoneMatches(before, query) =>
                       after = before /\ call[p].ret.val = [deletedCount |-> 0]
                /\ \A i \in 1..Len(before) :
                       IsFirstMatch(before, query, i) =>
                           /\ call[p].ret.val = [deletedCount |-> 1]
                           /\ Len(after) = Len(before) - 1
                           /\ \A j \in 1..(i - 1) : after[j] = before[j]
                           /\ \A j \in (i + 1)..Len(before) : after[j - 1] = before[j]
                           /\ Len(MatchingDocs(after, query)) = k - 1

\* a deleteOne whose filter matched two documents, the first of them after
\* a document that did not match, removed one and left the other stored
C16_Witness ==
    \E p \in Callers :
        /\ Done(p, "deleteOne")
        /\ call[p].ret.val.deletedCount = 1
        /\ Len(MatchingDocs(call[p].snap, call[p].op.query)) = 2
        /\ ~EqualsFilter(call[p].snap[1], call[p].op.query)
        /\ Len(MatchingDocs(Persisted(p), call[p].op.query)) = 1

(***************************************************************************)
(* C20.  Collection naming round trip: Database(D).collection(N) is bound  *)
(* to the key db_<D>_<N> and no store call is made before an operation is  *)
(* awaited; for every database name D and collection name N, underscores   *)
(* allowed, after a write through Database(D).collection(N) that nothing   *)
(* removed since, the names Database(D).listCollections() returns contain  *)
(* N, and every name it returns is the name of a collection that was       *)
(* written through Database(D).                                            *)
(***************************************************************************)
C20_NamingRoundTrip ==
    \A p \in Callers :
        /\ call[p].op.name \in Mutating \cup {"find", "countDocuments", "drop"} =>
               /\ getKey(call[p].op.coll) = KeyOf(call[p].op.via)
               /\ call[p].pc = "called" => call[p].gets = 0 /\ call[p].sets = 0
        /\ Done(p, "listCollections") =>
               LET d == call[p].op.via[1]
                   names == call[p].ret.val
               IN  /\ \A i \in 1..Len(events) :
                          WrittenAndKept(i, d) => events[i].via[2] \in names
                   /\ \A n \in names :
                          \E i \in 1..Len(events) :
                              events[i].kind = "set" /\ events[i].via = <<d, n>>

(***************************************************************************)
(* C21.  Database.drop() enumerates once the keys that have the database's *)
(* prefix and deletes them one at a time, in the order enumerated: at any  *)
(* point the keys deleted so far have no entry and every other key has the *)
(* entry drop found; when no delete fails drop returns with none of the    *)
(* enumerated keys left; when a delete fails drop stops and raises that    *)
(* failure, the keys deleted before it stay deleted and the keys not yet   *)
(* reached stay intact.                                                    *)
(***************************************************************************)
C21_DatabaseDrop ==
    \A p \in Callers :
        call[p].op.name = "dropDatabase" =>
            LET keys == call[p].keys
                at == call[p].at
                found == call[p].before
                prefix == <<"db", "_">> \o call[p].op.via[1] \o <<"_">>
            IN  /\ Range(keys) =
                       {key \in DOMAIN found : found[key].present /\ StartsWith(key, prefix)}
                /\ \A i, j \in 1..Len(keys) : i # j => keys[i] # keys[j]
                /\ \A i \in 1..at : kv[keys[i]] = NoEntry
                /\ \A i \in (at + 1)..Len(keys) : kv[keys[i]] = found[keys[i]]
                /\ \A key \in DOMAIN kv \ Range(keys) : kv[key] = found[key]
                /\ call[p].pc = "done" => at = Len(keys) /\ call[p].ret.ok
                /\ call[p].pc = "failed" =>
                       /\ at < Len(keys)
                       /\ call[p].thrown \in StoreErrors
                       /\ call[p].ret = Err(call[p].thrown)

\* the second delete of a Database.drop over two keys failed: the first key
\* is gone and the second still has its entry
C21_Witness ==
    \E p \in Callers :
        /\ call[p].op.name = "dropDatabase"
        /\ call[p].pc = "failed"
        /\ Len(call[p].keys) = 2
        /\ call[p].at = 1
        /\ ~kv[call[p].keys[1]].present
        /\ kv[call[p].keys[2]].present

(***************************************************************************)
(* C26.  Databases are isolated from each other: no operation through      *)
(* Database(A) reads, lists, changes or deletes documents written through  *)
(* another Database(B).  Every kv.set and kv.delete that lands on a key    *)
(* holding an entry comes through the database that wrote the entry; a     *)
(* find or countDocuments that found documents reads an entry written      *)
(* through its own database; and every stored key listCollections takes    *)
(* as its database's was written through that database.                    *)
(***************************************************************************)
C26_DatabasesIsolated ==
    /\ \A i \in 1..Len(events) :
           events[i].had => WriterBefore(events[i].key, i) = events[i].via[1]
    /\ \A p \in Callers :
           /\ ( /\ Done(p, "find") \/ Done(p, "countDocuments")
                /\ call[p].snap # <<>> ) =>
                  WriterBefore(getKey(call[p].op.coll), Len(events) + 1)
                      = call[p].op.via[1]
           /\ Done(p, "listCollections") =>
                  \A key \in StoredKeys :
                      StartsWith(key, <<"db", "_">> \o call[p].op.via[1] \o <<"_">>)
                          => WriterBefore(key, Len(events) + 1) = call[p].op.via[1]

(***************************************************************************)
(* C22.  The read operations find, findOne, findById and countDocuments,   *)
(* with any filter and any sort, skip and limit, and createIndex never     *)
(* write or delete a key-value entry: no step of theirs changes the store, *)
(* so the persisted content and order of every collection is the same      *)
(* after the call as before it.                                            *)
(***************************************************************************)
C22_ReadsDoNotWrite ==
    [][\A p \in Callers :
          (call'[p] # call[p] /\ call'[p].op.name \in ReadNames \cup {"createIndex"}) =>
              /\ kv' = kv
              /\ writes' = writes
              /\ events' = events
              /\ call'[p].pc = "done" => kv'[getKey(call'[p].op.coll)] = call'[p].before
      ]_vars

\* a find returned the stored documents in another order than the stored
\* one, which the entry still has
C22_Witness ==
    \E p \in Callers :
        /\ Done(p, "find")
        /\ call[p].op.query = EmptyObj
        /\ "sort" \in DOMAIN call[p].op.options
        /\ Len(call[p].ret.val) = Len(call[p].snap)
        /\ call[p].ret.val # call[p].snap
        /\ kv[getKey(call[p].op.coll)] = Entry(call[p].snap)

(***************************************************************************)
(* C23.  Every mutating operation (insertOne, insertMany, updateOne,       *)
(* updateMany, deleteOne, deleteMany) that completes has done exactly one  *)
(* store read and then exactly one store write of the whole collection,    *)
(* also when it changed nothing; so after a call that changed nothing on a *)
(* collection that had no entry, the entry exists and holds the empty      *)
(* sequence.  (Operations do not overlap here, so the write is the store   *)
(* call right after the read.)                                             *)
(***************************************************************************)
C23_OneReadOneWrite ==
    \A p \in Callers :
        (call[p].pc = "done" /\ call[p].op.name \in Mutating) =>
            /\ call[p].gets = 1
            /\ call[p].sets = 1
            /\ writes = call[p].readAt + 1
            /\ LastEvent.kind = "set"
            /\ LastEvent.key = getKey(call[p].op.coll)
            /\ kv[getKey(call[p].op.coll)] = Entry(call[p].out)
            /\ ( /\ ~call[p].before.present
                 /\ call[p].out = call[p].snap ) =>
                   kv[getKey(call[p].op.coll)] = Entry(<<>>)

\* an update without upsert or a delete ran on a collection with no entry
C23_Witness ==
    \E p \in Callers :
        /\ call[p].pc = "done"
        /\ call[p].op.name \in {"updateOne", "updateMany", "deleteOne", "deleteMany"}
        /\ ~call[p].op.upsert
        /\ ~call[p].before.present
        /\ call[p].ret.val \in {Counts(0), [deletedCount |-> 0]}
        /\ kv[getKey(call[p].op.coll)] = Entry(<<>>)

(***************************************************************************)
(* C25.  A filter that names a field which no stored document has matches  *)
(* no document, whatever value the filter gives for the field: find        *)
(* returns the empty list, countDocuments returns 0, and updateOne and     *)
(* updateMany without upsert, deleteOne and deleteMany change no document. *)
(***************************************************************************)
C25_MissingFieldMatchesNothing ==
    \A p \in Callers :
        (call[p].pc = "done" /\ NamesMissingField(call[p].op.query, call[p].snap)) =>
            /\ call[p].op.name = "find" => call[p].ret.val = <<>>
            /\ call[p].op.name = "countDocuments" => call[p].ret.val = 0
            /\ (call[p].op.name \in {"updateOne", "updateMany"} /\ ~call[p].op.upsert) =>
                   /\ call[p].out = call[p].snap
                   /\ call[p].ret.val = Counts(0)
            /\ call[p].op.name \in {"deleteOne", "deleteMany"} =>
                   /\ call[p].out = call[p].snap
                   /\ call[p].ret.val = [deletedCount |-> 0]

(***************************************************************************)
(* C28.  Upsert is idempotent: the document an updateOne or updateMany     *)
(* with upsert synthesizes equals the filter on every filter field, so the *)
(* same call repeated right after matches it (counts 1) and adds no second *)
(* document; for every filter and patch, a filter on _id and a patch that  *)
(* sets a filter field included.                                           *)
(***************************************************************************)
C28_UpsertIdempotent ==
    \A p \in Callers :
        UpsertTaken(p) =>
            /\ EqualsFilter(call[p].out[Len(call[p].out)], call[p].op.query)
            /\ \A res \in Reruns(call[p].op, Persisted(p)) :
                   /\ res.ret = Counts(1)
                   /\ Len(res.docs) = Len(Persisted(p))

(***************************************************************************)
(* C30.  Every mutation run without overlap keeps the order of the         *)
(* collection: insertOne, insertMany and an upsert add documents only at   *)
(* the end, updateOne and updateMany keep every document at its position,  *)
(* deleteOne and deleteMany keep the remaining documents in their relative *)
(* order; and find({}) without sort returns the documents in the stored    *)
(* order.                                                                  *)
(***************************************************************************)
C30_OrderKept ==
    \A p \in Callers :
        call[p].pc = "done" =>
            LET op == call[p].op
                snap == call[p].snap
                out == call[p].out
            IN  /\ op.name \in {"insertOne", "insertMany"} =>
                       /\ Len(out) = Len(snap) + Len(op.docs)
                       /\ SubSeq(out, 1, Len(snap)) = snap
                       /\ SubSeq(out, Len(snap) + 1, Len(out)) = op.docs
                /\ op.name \in {"updateOne", "updateMany"} =>
                       /\ Len(out) \in {Len(snap), Len(snap) + 1}
                       /\ Len(out) = Len(snap) + 1 => UpsertTaken(p)
                       /\ \A i \in 1..Len(snap) :
                              SameOrPatched(snap[i], out[i], op.update)
                /\ op.name \in {"deleteOne", "deleteMany"} => IsSubsequence(out, snap)
                /\ op.name \in Mutating => Persisted(p) = out
                /\ (op.name = "find" /\ op.query = EmptyObj /\ op.options = EmptyObj) =>
                       call[p].ret.val = Persisted(p)

\* a deleteOne took a document out of three and left the other two, the
\* last of them a document inserted after the first
C30_Witness ==
    \E p \in Callers :
        /\ Done(p, "deleteOne")
        /\ Len(call[p].snap) = 3
        /\ Len(Persisted(p)) = 2
        /\ Persisted(p)[1] \in {call[p].snap[1], call[p].snap[2]}
        /\ Persisted(p)[2] = call[p].snap[3]

C27_RemovalDurable ==
    \A i \in 1..Len(events) : \A id \in events[i].removed :
        Reappeared(i, id) => AddedLater(i, id)

(***************************************************************************)
(* C27 amended.  A document that a completed drop, deleteOne or deleteMany *)
(* removed is in the persisted collection again only if a later insert or  *)
(* upsert added it, or a mutating operation on the same collection that    *)
(* had read the collection before the removal wrote after it.              *)
(***************************************************************************)
C27_RemovalDurableWithoutOverlap ==
    \A i \in 1..Len(events) : \A id \in events[i].removed :
        Reappeared(i, id) => (AddedLater(i, id) \/ StaleWriteLater(i))

\* documents were removed, an operation that read after the removal wrote
\* the collection, and the removed documents are not in it
C27_Witness ==
    \E i \in 1..Len(events) : \E j \in (i + 1)..Len(events) :
        /\ events[i].removed # {}
        /\ events[j].key = events[i].key
        /\ events[j].kind = "set"
        /\ events[j].readAt >= i
        /\ events[i].removed \cap Ids(kv[events[i].key].docs) = {}

(***************************************************************************)
(* C29.  Operations on different collections of one database do not        *)
(* interfere: an operation reads and writes only the key of its own        *)
(* collection, so whatever operations on the other collection land between *)
(* its read and its write, it writes what it computes from the content its *)
(* own collection has, and leaves the other collection as it is.           *)
(***************************************************************************)
C29_CollectionsIndependent ==
    [][\A p \in Callers :
          (call'[p] # call[p] /\ call[p].pc \in {"called", "loaded"}) =>
              /\ \A k \in DOMAIN kv \ {getKey(call[p].op.coll)} : kv'[k] = kv[k]
              /\ (call[p].op.name # "drop" /\ call[p].pc = "called") =>
                     call'[p].snap = kv[getKey(call[p].op.coll)].docs
              /\ (call[p].pc = "loaded" /\ OnlyOthersSince(p)) =>
                     /\ kv'[getKey(call[p].op.coll)].present
                     /\ ResultOf(call[p].op, kv[getKey(call[p].op.coll)].docs,
                                 kv'[getKey(call[p].op.coll)].docs)
      ]_vars

\* q wrote its collection between p's read and p's write of the other one;
\* each collection holds what its own operation makes of what it held
C29_Witness ==
    \E p, q \in Callers :
        /\ call[p].pc = "done" /\ call[p].op.name \in Mutating
        /\ call[q].pc = "done" /\ call[q].op.name \in Mutating
        /\ call[p].op.coll # call[q].op.coll
        /\ call[p].readAt < call[q].wroteAt
        /\ call[q].wroteAt < call[p].wroteAt
        /\ Persisted(p) = call[p].out
        /\ Persisted(q) = call[q].out
        /\ call[p].out # call[p].before.docs
        /\ call[q].out # call[q].before.docs
        /\ ResultOf(call[p].op, call[p].before.docs, call[p].out)
        /\ ResultOf(call[q].op, call[q].before.docs, call[q].out)

=============================================================================
